---- MODULE Spec2Model ----
(***************************************************************************)
(* Shock-tube ignition delay script (src/shockTube.py).                    *)
(*                                                                         *)
(* Times are integers counting units of 1e-4 s (0.005 s = 50, 0.002 s =    *)
(* 20); the normalized volumes of the wall table are integers counting     *)
(* units of 1e-9.  A slope (a quotient of two floats in the code) is kept  *)
(* as the pair <<numerator, denominator>> and compared by cross            *)
(* multiplication, with the IEEE outcomes of a division by zero.           *)
(*                                                                         *)
(* The kinetics backend is outside the script: a solver step advances time *)
(* by a chosen amount, a charge of the fuel mixture shows one temperature  *)
(* rise at RiseTime, and the gas object the reactors were built on may be  *)
(* left holding any of their states.  The result tables idt_ideal and      *)
(* idt_real, the timing, the printing and the plot are left out.           *)
(***************************************************************************)
EXTENDS Integers, Sequences, FiniteSets, TLC

VARIABLES
    solution_results, \* get_IDT: the history handed to a direct call
    tau,              \* get_IDT: what the direct calls produced, by signal
    query,            \* v: the query time of a direct call
    v_ret,            \* v: what the direct call produced
    pc,               \* __main__: position in the sweep loop
    i,                \* __main__: index into temperature (1-based)
    gas_ideal,        \* __main__: the gas object given to run_cal_ideal
    gas_real,         \* __main__: the gas object given to run_cal_real
    run,              \* runner: "not_started", "advancing" or "done"
    end_time,         \* runner: parameter
    print_step,       \* runner: parameter
    t,                \* runner: local t
    counter,          \* runner: local counter
    timeHistory,      \* runner: local timeHistory
    r,                \* run_cal_ideal: the reactor
    r1,               \* run_cal_real: first reactor
    r2,               \* run_cal_real: second reactor
    result            \* runner: the value returned

idtVars   == <<solution_results, tau>>
vVars     == <<query, v_ret>>
mainVars  == <<pc, i, gas_ideal, gas_real>>
frameVars == <<run, end_time, print_step, t, counter, timeHistory, r, r1, r2, result>>
vars      == <<solution_results, tau, query, v_ret, pc, i, gas_ideal,
               gas_real, run, end_time, print_step, t, counter, timeHistory,
               r, r1, r2, result>>

(***************************************************************************)
(* Bounds of the model.                                                    *)
(***************************************************************************)
MaxLen      == 3   \* longest history handed to a direct get_IDT call
MaxVal      == 2   \* temperature samples of a direct call range over 0..MaxVal
QueryMargin == 4   \* v is queried from QueryMargin below to QueryMargin above the table
MaxDt       == 2   \* a solver step advances time by at most MaxDt
StallCap    == 3   \* a solver step may leave time unchanged while counter < StallCap
MaxSmall    == 3   \* the small end_time / print_step values of a direct runner call

Gaps      == {1, 2}      \* time between consecutive samples of a direct call
AuxValues == {0, 1}      \* pressure and mass-fraction samples of a direct call
FirstTimes == {1}        \* time of the first sample of a direct call
Signals   == {"T", "t", "P", "p", "OH"}
NoTau     == [s \in Signals |-> [raised |-> "not_called", value |-> 0]]
NoV       == [path |-> "not_called", k |-> 0, value |-> <<0, 1>>]

(***************************************************************************)
(* get_IDT                                                                 *)
(***************************************************************************)
\* str.upper() on the signal names
Upper(s) == CASE s = "t" -> "T" [] s = "p" -> "P" [] OTHER -> s

\* the float a / b of slope <<a, b>>: finite, or what IEEE division by zero gives
Kind(s) ==
    IF s[2] # 0 THEN "finite"
    ELSE IF s[1] > 0 THEN "inf" ELSE IF s[1] < 0 THEN "-inf" ELSE "nan"

\* the sign-normalized cross product test of a[1]/a[2] > b[1]/b[2], both finite
FiniteGreater(a, b) ==
    LET sa == IF a[2] < 0 THEN -1 ELSE 1
        sb == IF b[2] < 0 THEN -1 ELSE 1
    IN  (sa * a[1]) * (sb * b[2]) > (sb * b[1]) * (sa * a[2])

Exceeds_ge(a, b) ==
    CASE Kind(a) = "nan" \/ Kind(b) = "nan" -> FALSE
      [] Kind(a) = "inf"    -> TRUE
      [] Kind(a) = "-inf"   -> Kind(b) = "-inf"
      [] Kind(b) = "inf"    -> FALSE
      [] Kind(b) = "-inf"   -> TRUE
      [] OTHER              -> ~FiniteGreater(b, a)

\* temp_scope > scope_max
Exceeds(a, b) ==
    CASE Kind(a) = "nan" \/ Kind(b) = "nan" -> FALSE
      [] Kind(a) = "inf"    -> Kind(b) # "inf"
      [] Kind(a) = "-inf"   -> FALSE
      [] Kind(b) = "inf"    -> FALSE
      [] Kind(b) = "-inf"   -> TRUE
      [] OTHER              -> FiniteGreater(a, b)

\* y = solution_results.T if signal.upper() == 'T' else solution_results.P
Channel(h, sig) == [k \in 1..Len(h) |-> IF Upper(sig) = "T" THEN h[k].T ELSE h[k].P]

\* temp_scope of the pair (k, k+1), 1-based
Scope(h, y, k) == <<y[k + 1] - y[k], h[k + 1].t - h[k].t>>

\* the for loop from index k on; acc = [tau_idt, scope_max]
RECURSIVE SlopeLoop(_, _, _, _)
SlopeLoop(h, y, k, acc) ==
    IF k > Len(h) - 1 THEN acc
    ELSE IF Exceeds(Scope(h, y, k), acc.scope_max)
         THEN SlopeLoop(h, y, k + 1, [tau_idt |-> h[k].t, scope_max |-> Scope(h, y, k)])
         ELSE SlopeLoop(h, y, k + 1, acc)

\* numpy argmax: the first index holding the maximum (1-based)
ArgMax(ys) ==
    CHOOSE k \in 1..Len(ys) :
        /\ \A j \in 1..Len(ys) : ys[j] <= ys[k]
        /\ \A j \in 1..(k - 1) : ys[j] < ys[k]

ArgMaxLast(ys) ==
    CHOOSE k \in 1..Len(ys) :
        /\ \A j \in 1..Len(ys) : ys[j] <= ys[k]
        /\ \A j \in (k + 1)..Len(ys) : ys[j] < ys[k]

SpeciesPeak_last(h) ==
    IF Len(h) = 0
    THEN [raised |-> "ValueError", value |-> 0]
    ELSE [raised |-> "none", value |-> h[ArgMaxLast([k \in 1..Len(h) |-> h[k].Y])].t]

\* solution_results.t[solution_results(signal).Y.argmax()]
SpeciesPeak(h) ==
    IF Len(h) = 0
    THEN [raised |-> "ValueError", value |-> 0]
    ELSE [raised |-> "none", value |-> h[ArgMax([k \in 1..Len(h) |-> h[k].Y])].t]

InitAcc_first(h) ==
    [tau_idt |-> IF Len(h) > 0 THEN h[1].t ELSE 0, scope_max |-> <<0, 1>>]

\* tau_idt = 0; scope_max = 0
InitAcc(h) == [tau_idt |-> 0, scope_max |-> <<0, 1>>]

get_IDT(h, sig) ==
    IF Upper(sig) \notin {"T", "P"}
    THEN SpeciesPeak(h)
    ELSE [raised |-> "none",
          value  |-> SlopeLoop(h, Channel(h, sig), 1, InitAcc(h)).tau_idt]

(***************************************************************************)
(* The wall-velocity profile v(t) of run_cal_real                          *)
(***************************************************************************)
\* V_t[0], in units of 1e-4 s
VtTime == [k \in 1..46 |-> 2 * (k - 1)]

\* V_t[1], in units of 1e-9
VtVol == <<1000000000, 990523087, 981281978, 972267286, 963470131, 954882110,
           946495261, 938302037, 930295277, 922468181, 914814290, 907327458,
           900001842, 892831873, 885812248, 878937911, 872204038, 865606022,
           859139466, 852800165, 846584099, 840487423, 834506453, 828637663,
           822877673, 817223244, 811671266, 806218758, 800862855, 795600807,
           790429969, 785347800, 780351855, 775439782, 770609317, 765858279,
           761184567, 756586156, 752061095, 747607501, 743223558, 738907513,
           734657673, 730472404, 726350127, 722289314>>

NBreak == Len(VtVol)

\* (V_t[1][k+1] - V_t[1][k]) / (V_t[0][k+1] - V_t[0][k]), 1-based
Derivative(k) == <<VtVol[k + 1] - VtVol[k], VtTime[k + 1] - VtTime[k]>>

InInterval_right(q, k) == VtTime[k] < q /\ q <= VtTime[k + 1]

\* V_t[0][i] <= t < V_t[0][i + 1]
InInterval(q, k) == VtTime[k] <= q /\ q < VtTime[k + 1]

FallThrough_zero == <<0, 1>>

\* the return after the loop
FallThrough == Derivative(NBreak - 1)

\* the loop of v from index k on
RECURSIVE vLoop(_, _)
vLoop(q, k) ==
    IF k > NBreak - 1 THEN [path |-> "fall_through", k |-> 0, value |-> FallThrough]
    ELSE IF InInterval(q, k) THEN [path |-> "interval", k |-> k, value |-> Derivative(k)]
                             ELSE vLoop(q, k + 1)

v(q) == vLoop(q, 1)

(***************************************************************************)
(* Gas objects, reactors and the solver                                    *)
(***************************************************************************)
Mixture == "CH3OCH2OCH3:4.9880287E-2,O2:1.9952115E-1,N2:7.5059856E-1,HE:4.9880287E-9,H2O:4.9880287E-9"
PureH2  == "H2:1"

temperature == <<700, 750, 800, 850, 900, 950, 1000, 1050, 1100, 1150, 1200, 1250>>
pressure    == 2000000
EndTimeSweep     == 50   \* end_time=0.005
PrintStepDefault == 20   \* print_step=20

RiseTime == 20   \* the mixture's temperature rises right after 0.002 s
TRise    == 1000 \* by this much

\* gas.TPX = [T, P, X]
TPX(T, P, X) == [T |-> T, P |-> P, X |-> X]

\* ct.Solution('DMM-test.yaml', 'gas'): the state a freshly loaded phase holds
LoadedGas == TPX(300, 101325, "mechanism_default")

\* ct.Reactor(contents=gas): the reactor starts from the state gas holds now
Reactor(gas) == gas

NoReactor == TPX(0, 0, "no_reactor")

\* r.thermo.state at solver time time: a charge of the mixture shows one sharp
\* temperature rise right after RiseTime, anything else stays as charged
ThermoAt(reactor, time) ==
    TPX(IF reactor.X = Mixture /\ time > RiseTime THEN reactor.T + TRise ELSE reactor.T,
        reactor.P, reactor.X)

\* timeHistory.append(state, t=t)
Sample(state, time) == [t |-> time, T |-> state.T, P |-> state.P, X |-> state.X]

\* what reactorNetwork.step() may add to the time: the solver never goes back
StepSizes(c) == IF c < StallCap THEN 0..MaxDt ELSE 1..MaxDt

\* the states the caller's gas object may hold after the solver worked on the
\* reactors built on it: its own, or the state of one of these reactors
Synced(gas, reactors, time) == {gas} \cup {ThermoAt(x, time) : x \in reactors}

LoopCond_le(time, end) == time <= end

\* while t < end_time
LoopCond(time, end) == time < end

SampleDue_after(c, n) == (c - 1) % n = 0

\* if counter % print_step == 0
SampleDue(c, n) == c % n = 0

ToMs_id(x) == x

\* get_IDT(timeHistory) * 1000
ToMs(x) == x * 1000

NoFrame ==
    /\ run' = "not_started"
    /\ end_time' = 0
    /\ print_step' = 1
    /\ t' = 0
    /\ counter' = 1
    /\ timeHistory' = <<>>
    /\ r' = NoReactor
    /\ r1' = NoReactor
    /\ r2' = NoReactor
    /\ result' = 0

(***************************************************************************)
(* run_cal_ideal                                                           *)
(***************************************************************************)
IdealStart ==
    /\ pc = "in_ideal" /\ run = "not_started"
    /\ r' = Reactor(gas_ideal)
    /\ timeHistory' = <<>>
    /\ t' = 0
    /\ counter' = 1
    /\ run' = "advancing"
    /\ UNCHANGED <<idtVars, vVars, mainVars, end_time, print_step, r1, r2, result>>

IdealStepBy(dt) ==
    /\ pc = "in_ideal" /\ run = "advancing"
    /\ LoopCond(t, end_time)
    /\ t' = t + dt
    /\ timeHistory' = IF SampleDue(counter, print_step)
                      THEN Append(timeHistory, Sample(ThermoAt(r, t'), t'))
                      ELSE timeHistory
    /\ counter' = counter + 1
    /\ gas_ideal' \in Synced(gas_ideal, {r}, t')
    /\ UNCHANGED <<idtVars, vVars, pc, i, gas_real, run, end_time, print_step,
                   r, r1, r2, result>>

IdealStep == \E dt \in StepSizes(counter) : IdealStepBy(dt)

IdealProgress == \E dt \in 1..MaxDt : IdealStepBy(dt)

IdealReturn ==
    /\ pc = "in_ideal" /\ run = "advancing"
    /\ ~LoopCond(t, end_time)
    /\ result' = ToMs(get_IDT(timeHistory, "T").value)
    /\ run' = "done"
    /\ UNCHANGED <<idtVars, vVars, mainVars, end_time, print_step, t, counter,
                   timeHistory, r, r1, r2>>

(***************************************************************************)
(* run_cal_real                                                            *)
(***************************************************************************)
RealStart_noOverride ==
    /\ pc = "in_real" /\ run = "not_started"
    /\ r1' = Reactor(gas_real)
    /\ r2' = Reactor(gas_real)
    /\ timeHistory' = <<>>
    /\ t' = 0
    /\ counter' = 1
    /\ run' = "advancing"
    /\ UNCHANGED <<idtVars, vVars, mainVars, end_time, print_step, r, result>>

\* r1 is built, then gas2 = gas; gas2.X = {'H2': 1}, then r2 is built on gas2
RealStart ==
    /\ pc = "in_real" /\ run = "not_started"
    /\ r1' = Reactor(gas_real)
    /\ gas_real' = [gas_real EXCEPT !.X = PureH2]
    /\ r2' = Reactor(gas_real')
    /\ timeHistory' = <<>>
    /\ t' = 0
    /\ counter' = 1
    /\ run' = "advancing"
    /\ UNCHANGED <<idtVars, vVars, pc, i, gas_ideal, end_time, print_step, r, result>>

RealStepBy(dt) ==
    /\ pc = "in_real" /\ run = "advancing"
    /\ LoopCond(t, end_time)
    /\ t' = t + dt
    /\ timeHistory' = IF SampleDue(counter, print_step)
                      THEN Append(timeHistory, Sample(ThermoAt(r1, t'), t'))
                      ELSE timeHistory
    /\ counter' = counter + 1
    /\ gas_real' \in Synced(gas_real, {r1, r2}, t')
    /\ UNCHANGED <<idtVars, vVars, pc, i, gas_ideal, run, end_time, print_step,
                   r, r1, r2, result>>

RealStep == \E dt \in StepSizes(counter) : RealStepBy(dt)

RealProgress == \E dt \in 1..MaxDt : RealStepBy(dt)

RealReturn ==
    /\ pc = "in_real" /\ run = "advancing"
    /\ ~LoopCond(t, end_time)
    /\ result' = ToMs(get_IDT(timeHistory, "T").value)
    /\ run' = "done"
    /\ UNCHANGED <<idtVars, vVars, mainVars, end_time, print_step, t, counter,
                   timeHistory, r, r1, r2>>

(***************************************************************************)
(* __main__: the temperature sweep                                         *)
(***************************************************************************)
SetIdealTPX ==
    /\ pc = "set_ideal"
    /\ gas_ideal' = TPX(temperature[i], pressure, Mixture)
    /\ pc' = "call_ideal"
    /\ UNCHANGED <<idtVars, vVars, i, gas_real, frameVars>>

CallIdeal ==
    /\ pc = "call_ideal"
    /\ pc' = "in_ideal"
    /\ run' = "not_started"
    /\ end_time' = EndTimeSweep
    /\ print_step' = PrintStepDefault
    /\ UNCHANGED <<idtVars, vVars, i, gas_ideal, gas_real, t, counter,
                   timeHistory, r, r1, r2, result>>

\* idt_ideal[i] = ...; the frame of the call is gone
StoreIdeal ==
    /\ pc = "in_ideal" /\ run = "done"
    /\ pc' = "set_real"
    /\ NoFrame
    /\ UNCHANGED <<idtVars, vVars, i, gas_ideal, gas_real>>

SetRealTPX_first ==
    /\ pc = "set_real"
    /\ gas_real' = IF i = 1 THEN TPX(temperature[i], pressure, Mixture) ELSE gas_real
    /\ pc' = "call_real"
    /\ UNCHANGED <<idtVars, vVars, i, gas_ideal, frameVars>>

SetRealTPX ==
    /\ pc = "set_real"
    /\ gas_real' = TPX(temperature[i], pressure, Mixture)
    /\ pc' = "call_real"
    /\ UNCHANGED <<idtVars, vVars, i, gas_ideal, frameVars>>

CallReal ==
    /\ pc = "call_real"
    /\ pc' = "in_real"
    /\ run' = "not_started"
    /\ end_time' = EndTimeSweep
    /\ print_step' = PrintStepDefault
    /\ UNCHANGED <<idtVars, vVars, i, gas_ideal, gas_real, t, counter,
                   timeHistory, r, r1, r2, result>>

\* idt_real[i] = ...; next temperature, or on to the plot
StoreReal ==
    /\ pc = "in_real" /\ run = "done"
    /\ IF i < Len(temperature)
       THEN i' = i + 1 /\ pc' = "set_ideal"
       ELSE i' = i /\ pc' = "plot"
    /\ NoFrame
    /\ UNCHANGED <<idtVars, vVars, gas_ideal, gas_real>>

(***************************************************************************)
(* Direct calls of get_IDT and of v                                        *)
(***************************************************************************)
RECURSIVE TimeOf(_, _, _)
\* the time of sample k of a history that starts at t0 with samples gap[.] apart
TimeOf(t0, gap, k) == IF k = 1 THEN t0 ELSE TimeOf(t0, gap, k - 1) + gap[k - 1]

\* the history of n samples with these times and these samples of T, P and Y
History(n, t0, gap, a, b, c) ==
    [k \in 1..n |-> [t |-> TimeOf(t0, gap, k), T |-> a[k], P |-> b[k], Y |-> c[k]]]

Queries == (0 - QueryMargin)..(VtTime[NBreak] + QueryMargin)

Idle ==
    /\ pc = "idle" /\ i = 1
    /\ gas_ideal = LoadedGas /\ gas_real = LoadedGas
    /\ run = "not_started" /\ end_time = 0 /\ print_step = 1 /\ t = 0 /\ counter = 1
    /\ timeHistory = <<>> /\ r = NoReactor /\ r1 = NoReactor /\ r2 = NoReactor
    /\ result = 0

\* get_IDT(solution_results, signal) for every signal
CallGetIDT ==
    /\ tau = NoTau
    /\ tau' = [s \in Signals |-> get_IDT(solution_results, s)]
    /\ UNCHANGED <<solution_results, vVars, mainVars, frameVars>>

CallV ==
    /\ v_ret = NoV
    /\ v_ret' = v(query)
    /\ UNCHANGED <<idtVars, query, mainVars, frameVars>>

(***************************************************************************)
(* Specifications                                                          *)
(***************************************************************************)
NoDirectCall ==
    /\ solution_results = <<>> /\ tau = NoTau
    /\ query = 0 /\ v_ret = NoV

\* get_IDT called on every bounded history with every signal
IDTInit ==
    /\ \E n \in 0..MaxLen :
         \E t0 \in FirstTimes, gap \in [1..(n - 1) -> Gaps], a \in [1..n -> 0..MaxVal],
            b \in [1..n -> AuxValues], c \in [1..n -> AuxValues] :
                solution_results = History(n, t0, gap, a, b, c)
    /\ tau = NoTau
    /\ query = 0 /\ v_ret = NoV
    /\ Idle

IDTSpec == IDTInit /\ [][CallGetIDT]_vars

\* v called at every bounded query time
VInit ==
    /\ query \in Queries
    /\ v_ret = NoV
    /\ solution_results = <<>> /\ tau = NoTau
    /\ Idle

VSpec == VInit /\ [][CallV]_vars

\* one runner called with bounded arguments on a gas holding the first sweep point
RunInputs == ((0 - 1)..MaxSmall) \X (1..MaxSmall) \cup {<<EndTimeSweep, PrintStepDefault>>}

RunInit ==
    /\ NoDirectCall
    /\ pc \in {"in_ideal", "in_real"}
    /\ i = 1
    /\ gas_ideal = TPX(temperature[1], pressure, Mixture)
    /\ gas_real = TPX(temperature[1], pressure, Mixture)
    /\ run = "not_started"
    /\ \E inp \in RunInputs : end_time = inp[1] /\ print_step = inp[2]
    /\ t = 0 /\ counter = 1 /\ timeHistory = <<>>
    /\ r = NoReactor /\ r1 = NoReactor /\ r2 = NoReactor
    /\ result = 0

RunNext ==
    \/ IdealStart \/ IdealStep \/ IdealReturn
    \/ RealStart \/ RealStep \/ RealReturn

RunSpec == RunInit /\ [][RunNext]_vars

\* a sequential program goes on while it can, and the solver's time advances
FairRunSpec ==
    /\ RunInit /\ [][RunNext]_vars
    /\ WF_vars(IdealStart) /\ WF_vars(IdealProgress) /\ WF_vars(IdealReturn)
    /\ WF_vars(RealStart) /\ WF_vars(RealProgress) /\ WF_vars(RealReturn)

\* the script: both gas objects loaded, then the sweep
Init ==
    /\ NoDirectCall
    /\ pc = "set_ideal"
    /\ i = 1
    /\ gas_ideal = LoadedGas
    /\ gas_real = LoadedGas
    /\ run = "not_started" /\ end_time = 0 /\ print_step = 1 /\ t = 0 /\ counter = 1
    /\ timeHistory = <<>> /\ r = NoReactor /\ r1 = NoReactor /\ r2 = NoReactor
    /\ result = 0

Next ==
    \/ SetIdealTPX \/ CallIdeal \/ IdealStart \/ IdealStep \/ IdealReturn \/ StoreIdeal
    \/ SetRealTPX \/ CallReal \/ RealStart \/ RealStep \/ RealReturn \/ StoreReal

Spec == Init /\ [][Next]_vars

(***************************************************************************)
(* Properties of get_IDT (checked under IDTSpec)                           *)
(***************************************************************************)
Called == tau # NoTau
SlopeSignals == {"T", "t", "P", "p"}
H == solution_results
Y(sig) == [k \in 1..Len(H) |-> IF sig \in {"T", "t"} THEN H[k].T ELSE H[k].P]
Pairs == 1..(Len(H) - 1)
StrictTimes == \A k \in Pairs : H[k].t < H[k + 1].t

\* slope of pair a compared with slope of pair b, for increasing times
SlopeLess(y, a, b) ==
    (y[a + 1] - y[a]) * (H[b + 1].t - H[b].t) < (y[b + 1] - y[b]) * (H[a + 1].t - H[a].t)
SlopePositive(y, a) == y[a + 1] > y[a]
Steepest(y, k) == \A j \in Pairs : ~SlopeLess(y, k, j)
FirstSteepest(y, k) == Steepest(y, k) /\ \A j \in 1..(k - 1) : SlopeLess(y, j, k)

\* C1: for signal T or P in either letter case, on a history of at least two
\* samples with strictly increasing times and some positive forward slope,
\* get_IDT returns the time of the smallest index whose forward slope is the
\* maximum; a rising linear ramp therefore gives the first sample's time.
C1_FirstSteepestSlope ==
    \A sig \in SlopeSignals :
        (Called /\ Len(H) >= 2 /\ StrictTimes /\ \E k \in Pairs : SlopePositive(Y(sig), k))
        => /\ tau[sig].raised = "none"
           /\ \E k \in Pairs : FirstSteepest(Y(sig), k) /\ tau[sig].value = H[k].t
           /\ ((\A k \in Pairs : Steepest(Y(sig), k)) => tau[sig].value = H[1].t)

\* a lower-case signal on three samples whose two slopes tie at a positive maximum
C1_Witness ==
    /\ Called /\ Len(H) = 3
    /\ SlopePositive(Y("t"), 1) /\ Steepest(Y("t"), 1) /\ Steepest(Y("t"), 2)
    /\ tau["t"].value = H[1].t

\* C2 as claimed: on the slope branch a history of fewer than two samples
\* makes get_IDT fail with InvalidHistory.
C2_ShortHistoryFails ==
    \A sig \in SlopeSignals :
        (Called /\ Len(H) < 2) => tau[sig].raised = "InvalidHistory"

\* C3 as claimed: with no positive forward slope get_IDT returns the time of
\* the first sample.
C3_DefaultIsFirstSample ==
    \A sig \in SlopeSignals :
        (Called /\ Len(H) >= 2 /\ \A k \in Pairs : ~SlopePositive(Y(sig), k))
        => tau[sig].value = H[1].t

\* C3 amended: with no positive forward slope get_IDT returns 0, the initial
\* value of tau_idt, whatever the time of the first sample.
C3_DefaultIsZero ==
    \A sig \in SlopeSignals :
        (Called /\ Len(H) >= 2 /\ \A k \in Pairs : ~SlopePositive(Y(sig), k))
        => tau[sig].raised = "none" /\ tau[sig].value = 0

\* a falling temperature on a history that starts after time 0
C3_Witness ==
    /\ Called /\ Len(H) >= 2 /\ H[1].t > 0
    /\ \A k \in Pairs : H[k + 1].T < H[k].T
    /\ tau["T"].value = 0

\* C6: for a species signal get_IDT returns the time of the first sample at
\* which the species' mass fraction equals its maximum over the history,
\* whatever the temperature and pressure samples are.
C6_SpeciesFirstPeak ==
    \A sig \in Signals \ SlopeSignals :
        (Called /\ Len(H) > 0)
        => /\ tau[sig].raised = "none"
           /\ \E k \in 1..Len(H) :
                /\ tau[sig].value = H[k].t
                /\ \A j \in 1..Len(H) : H[j].Y <= H[k].Y
                /\ \A j \in 1..(k - 1) : H[j].Y < H[k].Y

\* the mass fraction peaks twice, and temperature and pressure peak elsewhere
C6_Witness ==
    /\ Called /\ Len(H) = 3
    /\ H[1].Y = 0 /\ H[2].Y = 1 /\ H[3].Y = 1
    /\ H[1].T > H[2].T /\ H[3].P > H[2].P
    /\ tau["OH"].value = H[2].t

(***************************************************************************)
(* Properties of v (checked under VSpec)                                   *)
(***************************************************************************)
VCalled == v_ret # NoV
SameRatio(a, b) == a[1] * b[2] = b[1] * a[2]
IntervalSlope(k) == <<VtVol[k + 1] - VtVol[k], VtTime[k + 1] - VtTime[k]>>

\* C4: a query in [t_k, t_k+1), the breakpoint t_k included, gets the
\* derivative of the interval starting at t_k, never that of the interval
\* ending at t_k.
C4_LeftInclusiveInterval ==
    VCalled =>
        \A k \in 1..(NBreak - 1) :
            (VtTime[k] <= query /\ query < VtTime[k + 1])
            => /\ SameRatio(v_ret.value, IntervalSlope(k))
               /\ (k > 1 => ~SameRatio(v_ret.value, IntervalSlope(k - 1)))

\* v was queried exactly at an inner breakpoint
C4_Witness ==
    /\ VCalled
    /\ \E k \in 2..(NBreak - 1) : query = VtTime[k] /\ v_ret.k = k

\* C5: a query at or beyond the last breakpoint gets the derivative of the
\* final interval, which is not zero, through the return after the loop; that
\* return is taken exactly by the queries no interval holds.
C5_ClampExtend ==
    VCalled =>
        /\ (query >= VtTime[NBreak]
            => /\ SameRatio(v_ret.value, IntervalSlope(NBreak - 1))
               /\ v_ret.value[1] # 0
               /\ v_ret.path = "fall_through")
        /\ (v_ret.path = "fall_through"
            <=> (query < VtTime[1] \/ query >= VtTime[NBreak]))
        /\ (v_ret.path = "fall_through"
            => SameRatio(v_ret.value, IntervalSlope(NBreak - 1)))

\* v was queried beyond the last breakpoint
C5_Witness == VCalled /\ query > VtTime[NBreak] /\ v_ret.path = "fall_through"

(***************************************************************************)
(* Properties of the runners (checked under RunSpec and FairRunSpec)       *)
(***************************************************************************)
InIdeal == pc = "in_ideal"
InReal  == pc = "in_real"
TH      == timeHistory
Steps   == counter - 1   \* solver steps taken so far

\* C7: the loop goes not_started -> advancing -> done and reaches done; time
\* never decreases; a step is taken only while t < end_time, so the loop ends
\* right after the first step that returns a time >= end_time and takes no
\* step at all when end_time <= 0.
C7_LoopTerminates ==
    /\ [][/\ (run = "not_started" => run' \in {"not_started", "advancing"})
          /\ (run = "advancing" => run' \in {"advancing", "done"})
          /\ (run = "done" => run' = "done")
          /\ t' >= t
          /\ (counter' # counter => counter' = counter + 1 /\ t < end_time)
          /\ ((run = "advancing" /\ t >= end_time)
              => (run' = "done" /\ t' = t /\ counter' = counter))]_vars
    /\ [](run = "not_started" => Steps = 0 /\ t = 0)
    /\ [](run = "done" => t >= end_time)
    /\ []((run = "done" /\ end_time <= 0) => Steps = 0)
    /\ (run = "not_started" ~> run = "done")

\* a run of more than print_step steps has ended, at or beyond end_time
C7_Witness ==
    run = "done" /\ Steps > PrintStepDefault /\ t >= end_time /\ end_time > 0

\* the recorded pair of samples with the rise between them, if any
Straddles(k) == k \in 1..(Len(TH) - 1) /\ TH[k].t <= RiseTime /\ RiseTime < TH[k + 1].t

\* C8 as claimed: with the cadence of 20 and a temperature rise at 0.002 s
\* that the recorded history shows, run_cal_ideal returns 2.0 ms for any step
\* sequence.
C8_AlwaysTwoMs ==
    (/\ InIdeal /\ run = "done" /\ print_step = PrintStepDefault
     /\ \E k \in 1..Len(TH) : Straddles(k))
    => result = 1000 * RiseTime

\* C8 amended: run_cal_ideal returns 1000 * get_IDT(recorded history): 1000
\* times the time of the last recorded sample at or before the rise when a
\* later recorded sample follows the rise, and 0 when no recorded pair has the
\* rise between its samples; it is 2.0 ms when a recorded sample falls exactly
\* at 0.002 s and a later one is recorded after the rise.
C8_RecordedRise ==
    (InIdeal /\ run = "done")
    => /\ \A k \in 1..Len(TH) : Straddles(k) => result = 1000 * TH[k].t
       /\ (~(\E k \in 1..Len(TH) : Straddles(k)) => result = 0)
       /\ ((\E k \in 1..Len(TH) : Straddles(k) /\ TH[k].t = RiseTime)
           => result = 1000 * RiseTime)

\* with the cadence of 20 a sample fell exactly on the rise and 2.0 ms came back
C8_Witness ==
    /\ InIdeal /\ run = "done" /\ print_step = PrintStepDefault
    /\ \E k \in 1..Len(TH) : Straddles(k) /\ TH[k].t = RiseTime
    /\ result = 1000 * RiseTime

\* the reactor whose state the runner records
Recorded == IF InIdeal THEN r ELSE r1

\* C9: after n solver steps the history holds floor(n / print_step) samples;
\* the step whose number is a multiple of print_step appends its own time and
\* the state of the recorded reactor (r1 in run_cal_real, never r2); earlier
\* samples are never changed or removed; a run of fewer than 2 * print_step
\* steps ends with fewer than two samples.
C9_FixedCadence ==
    /\ [](run # "not_started" => Len(TH) = Steps \div print_step)
    /\ []((run # "not_started" /\ Steps > 0 /\ Steps % print_step = 0)
          => TH[Len(TH)].t = t)
    /\ [](run # "not_started"
          => \A k \in 1..Len(TH) :
                /\ TH[k].X = Recorded.X
                /\ TH[k].P = Recorded.P
                /\ TH[k].T = (IF TH[k].t > RiseTime THEN Recorded.T + TRise ELSE Recorded.T)
                /\ (InReal => TH[k].X # r2.X)
                /\ (k > 1 => TH[k - 1].t <= TH[k].t))
    /\ [][run = "advancing"
          => \/ TH' = TH
             \/ /\ Len(TH') = Len(TH) + 1
                /\ SubSeq(TH', 1, Len(TH)) = TH
                /\ counter % print_step = 0
                /\ TH'[Len(TH')].t = t']_vars
    /\ []((run = "done" /\ Steps < 2 * print_step) => Len(TH) < 2)

\* run_cal_real ended with two samples recorded at the cadence of 20
C9_Witness ==
    /\ InReal /\ run = "done" /\ print_step = PrintStepDefault
    /\ Len(TH) = 2 /\ Steps >= 2 * PrintStepDefault

(***************************************************************************)
(* Properties of the sweep (checked under Spec)                            *)
(***************************************************************************)
Prescribed(k) == [T |-> temperature[k], P |-> pressure, X |-> Mixture]
Entering == run = "not_started"

\* what C10 says besides the composition on return: every point, in order,
\* invokes both runners on the prescribed mixture, temperature and pressure,
\* and gas_ideal never holds pure H2
SweepContainment ==
    /\ [](((InIdeal /\ Entering) => gas_ideal = Prescribed(i))
          /\ ((InReal /\ Entering) => gas_real = Prescribed(i))
          /\ gas_ideal.X # PureH2
          /\ i \in 1..Len(temperature))
    /\ [][/\ i' \in {i, i + 1}
          /\ (i' = i + 1 => (InReal /\ run = "done"))
          /\ ((pc' = "in_real" /\ pc # "in_real") => pc = "call_real")
          /\ ((pc' = "call_real") => pc \in {"set_real", "call_real"})
          /\ ((pc' = "set_real" /\ pc # "set_real") => (InIdeal /\ run = "done"))
          /\ ((pc' = "plot" /\ pc # "plot") => i = Len(temperature))]_vars

\* C10 as claimed: on return of run_cal_real the caller's gas_real composition
\* is {H2: 1}, and the override is contained across the sweep.
C10_ReturnsPureH2 ==
    /\ []((InReal /\ run = "done") => gas_real.X = PureH2)
    /\ SweepContainment

\* C10 amended: run_cal_real sets the composition of the gas object it was
\* given to pure H2 after r1 and before r2 are built (gas2 is an alias), so
\* r2 starts from {H2: 1}, and it never restores the caller's state: on return
\* gas_real holds {H2: 1} or whatever reactor state the solver last loaded
\* into the shared object; the override is contained across the sweep.
C10_OverrideContained ==
    /\ []((InReal /\ run # "not_started")
          => /\ r1 = Prescribed(i)
             /\ r2.X = PureH2
             /\ gas_real.X \in {PureH2, r1.X, r2.X})
    /\ SweepContainment

\* a later sweep point enters run_cal_real on the prescribed state although an
\* earlier point's override and solver run went over the same object
C10_Witness ==
    /\ InReal /\ Entering /\ i = 2
    /\ gas_real = Prescribed(2)

====
